---- MODULE Spec2Model ----
(***************************************************************************)
(* pre-commit-go: the concurrent check runner (run / callRun) and the      *)
(* prerequisite resolver and installer (installPrereq) of main.go, with    *)
(* CheckPrerequisite.IsPresent of checks/definitions.                      *)
(*                                                                         *)
(* Time is a discrete clock counted in seconds.  Only Check.Run() takes    *)
(* time: every other statement is instantaneous, and the clock advances    *)
(* only when no goroutine can take an instantaneous step.                  *)
(***************************************************************************)
EXTENDS Integers, Sequences, FiniteSets, TLC

\* ---------------------------------------------------------------- bounds
MaxChecks == 2      \* longest list of enabled checks
MaxExec == 3        \* longest Check.Run(), in seconds
MaxBudget == 2      \* largest MaxDuration, in seconds
MaxProbes == 2      \* most prerequisites declared by the enabled checks

VARIABLES
  enabledChecks,  \* run: the list returned by config.EnabledChecks
  MaxDuration,    \* config.MaxDuration, seconds
  now,            \* time.Now()
  mpc,            \* position of the goroutine executing run()
  spawned,        \* number of "go func" statements executed by the loop
  wg,             \* sync.WaitGroup counter
  errs,           \* the buffered channel errs
  tpc,            \* position of each check goroutine
  held,           \* check instances whose sync.Locker is locked
  left,           \* seconds of Check.Run() still to elapse, per goroutine
  calls,          \* number of check.Run() invocations, per goroutine
  begun,          \* callRun: start, per goroutine
  duration,       \* callRun: returned duration, per goroutine
  doneAt,         \* time of wg.Done(), per goroutine
  err,            \* run: var err error of the drain loop
  printed,        \* what fmt.Printf wrote, in order
  ret,            \* what run() returned
  total,          \* run: duration of the summary error
  prereqs,        \* check.GetPrerequisites(), per enabled check
  exitCode,       \* IsPresent: exitCode, per probe goroutine
  ppc,            \* position of each probe goroutine
  urlc,           \* installPrereq: the buffered channel c
  m,              \* installPrereq: keys of the map m
  urls,           \* installPrereq: urls
  fetches,        \* the "go get" command lines captured, in order
  pret,           \* what installPrereq() returned
  args,           \* os.Args[1:]: the command, when one is given
  level,          \* the -level flag
  decodeErr,      \* getConfig: the configuration file failed to decode
  hook,           \* .git/hooks/pre-commit
  exit,           \* exit status of the process
  config,         \* EnabledChecks: c.Modes
  modes,          \* EnabledChecks: the modes asked for
  idx,            \* EnabledChecks: position of "for _, mode := range modes"
  out,            \* EnabledChecks: out
  maxOut,         \* EnabledChecks: max
  cpc,            \* position of the configuration function under study
  node,           \* Mode.UnmarshalYAML: the YAML node handed to unmarshal
  mode,           \* Mode.UnmarshalYAML: *m
  merr,           \* Mode.UnmarshalYAML: the error returned
  encoded,        \* Checks.UnmarshalYAML: the YAML node of "checks"
  cOut,           \* Checks.UnmarshalYAML: *c
  cerr,           \* Checks.UnmarshalYAML: the error returned
  records,        \* coverage: the record of each test run
  merged,         \* coverage: the runs whose record has been merged
  profile,        \* coverage: the merged model, covered lines per file
  all,            \* allChecks: every check of the Config, enabled or not
  original,       \* writeConfig: the Config that was encoded
  yml             \* pre-commit-go.yml: absent, or the document written

vars == <<enabledChecks, MaxDuration, now, mpc, spawned, wg, errs, tpc, held,
          left, calls, begun, duration, doneAt, err, printed, ret,
          total, prereqs, exitCode, ppc, urlc, m, urls, fetches, pret, args,
          level, decodeErr, hook, exit, config, modes, idx, out, maxOut,
          cpc, node, mode, merr, encoded, cOut, cerr, records, merged,
          profile, all, original, yml>>

\* The variables of run and of its goroutines.
runVars == <<MaxDuration, now, errs, tpc, held, left, calls, begun, duration,
             doneAt, err, printed, ret, total>>

\* The variables of installPrereq and of its goroutines.
prereqVars == <<prereqs, exitCode, ppc, urlc, m, urls, fetches, pret>>

\* The variables of mainImpl, main and install.
mainVars == <<args, level, decodeErr, hook, exit>>

\* What neither run nor installPrereq touches.
\* The variables of the functions of config.go.
cfgVars == <<config, modes, idx, out, maxOut, cpc, node, mode, merr, encoded,
             cOut, cerr>>

\* The variables of the coverage merge, of allChecks and of the
\* configuration file.
extraVars == <<records, merged, profile, all, original, yml>>

otherVars == <<mainVars, cfgVars, extraVars>>

\* ---------------------------------------------------------------- inputs
\* One entry of the enabled list: the check instance, whether the instance
\* implements sync.Locker, and what this Run() of it does.
CheckType == [inst : 1..MaxChecks, locker : BOOLEAN, fails : BOOLEAN,
              cost : 1..MaxExec]

\* Instances are numbered in order of first occurrence, and the capability
\* belongs to the instance, not to the occurrence.
WellFormed(cs) ==
  /\ \A i \in 1..Len(cs) :
       \/ \E j \in 1..(i-1) : cs[j].inst = cs[i].inst
       \/ cs[i].inst = Cardinality({cs[j].inst : j \in 1..(i-1)}) + 1
  /\ \A i, j \in 1..Len(cs) :
       cs[i].inst = cs[j].inst => cs[i].locker = cs[j].locker

CheckLists ==
  {cs \in UNION {[1..n -> CheckType] : n \in 0..MaxChecks} : WellFormed(cs)}

\* The package URLs prerequisites are declared with, numbered in ascending
\* string order.
URLs == {1, 2}

N == Len(enabledChecks)
Tasks == 1..N

nil == [check |-> 0, kind |-> "nil"]
Failure(i, kind) == [check |-> i, kind |-> kind]

\* ------------------------------------------------------------------- run
\* make(chan error, len(enabledChecks))
ErrsCap == Len(enabledChecks)

\* The comparison with >= in place of >.
OverBudgetAtLimit(d, max) == d >= max

\* duration > time.Duration(max)*time.Second
OverBudget(d, max) == d > max

\* check.(sync.Locker)
IsLocker(i) == enabledChecks[i].locker

\* The entry is a Check of the runner with per-check budgets, which has
\* maxDuration() and no lock; the clock of that runner counts half seconds.
HasMaxDuration(i) == "max" \in DOMAIN enabledChecks[i]

\* max := check.maxDuration(); if max == 0 { max = config.MaxDuration }
Selected(i) ==
  IF enabledChecks[i].max = 0 THEN MaxDuration ELSE enabledChecks[i].max

\* time.Duration(max)*time.Second with max a float64: the conversion drops
\* the fraction of a second, here the odd half second.
Truncated(b) == (b \div 2) * 2

\* What the duration of the check is compared with.
Limit(i) ==
  IF HasMaxDuration(i) THEN Truncated(Selected(i)) ELSE MaxDuration

\* mainImpl is not running: run or installPrereq is looked at alone.
\* ------------------------------------------------------------ config.go
\* The longest list of modes EnabledChecks is asked for, and the most blocks
\* one check type carries in an encoded "checks" mapping.
MaxModes == 2
MaxBlocks == 1

\* AllModes: PreCommit, PrePush, ContinuousIntegration, Lint.
AllModes == <<"pre-commit", "pre-push", "continuous-integration", "lint">>

\* A YAML value: its kind and, whatever the kind, the strings it holds.
Value(kind, v) == [kind |-> kind, value |-> v]

\* The fields of a variant without configuration option.
NoFields == [f \in {} |-> Value("scalar", <<>>)]

\* ExtraArgs []string `yaml:"extra_args"`
ExtraArgs(v) == "extra_args" :> Value("sequence", v)

\* Ignores string `yaml:"ignores"`
Ignores(v) == "ignores" :> Value("scalar", <<v>>)

\* Blacklist []string `yaml:"blacklist"`
Blacklist(v) == "blacklist" :> Value("sequence", v)

\* The fields New() gives a Coverage.
CoverageFields(upload) ==
  ("use_coveralls" :> Value("scalar", <<upload>>))
  @@ ("global" :> Value("mapping", <<"50", "100">>))
  @@ ("per_dir_default" :> Value("mapping", <<"0", "0">>))
  @@ ("per_dir" :> Value("mapping", <<>>))

\* One check instance: its type name, the identity of the object and the
\* values of its fields, by the key each field is serialized under.
Instance(name, id, fields) == [name |-> name, id |-> id, fields |-> fields]

\* New(): the default configuration, Modes only.
New ==
  ("pre-commit" :>
     [MaxDuration |-> 5,
      Checks |-> ("build" :> <<Instance("build", 1, ExtraArgs(<<>>))>>)
              @@ ("gofmt" :> <<Instance("gofmt", 2, NoFields)>>)
              @@ ("test" :> <<Instance("test", 3, ExtraArgs(<<"-short">>))>>)])
  @@ ("pre-push" :>
     [MaxDuration |-> 15,
      Checks |-> ("goimports" :> <<Instance("goimports", 4, NoFields)>>)
              @@ ("coverage" :> <<Instance("coverage", 5, CoverageFields("false"))>>)
              @@ ("test" :> <<Instance("test", 6, ExtraArgs(<<"-v", "-race">>))>>)])
  @@ ("continuous-integration" :>
     [MaxDuration |-> 120,
      Checks |-> ("build" :> <<Instance("build", 7, ExtraArgs(<<>>))>>)
              @@ ("gofmt" :> <<Instance("gofmt", 8, NoFields)>>)
              @@ ("goimports" :> <<Instance("goimports", 9, NoFields)>>)
              @@ ("coverage" :> <<Instance("coverage", 10, CoverageFields("true"))>>)
              @@ ("test" :> <<Instance("test", 11, ExtraArgs(<<"-v", "-race">>))>>)])
  @@ ("lint" :>
     [MaxDuration |-> 15,
      Checks |-> ("errcheck" :> <<Instance("errcheck", 12, Ignores("Close"))>>)
              @@ ("golint" :> <<Instance("golint", 13, Blacklist(<<>>))>>)
              @@ ("govet" :> <<Instance("govet", 14, Blacklist(<<" composite literal uses unkeyed fields">>))>>)])

\* Checks(nil), the Checks of the zero Settings.
NoChecks == [n \in {} |-> <<>>]

\* A configuration as a pre-commit-go.yml can give it: pre-commit with two
\* instances of one type, lint without check, the other modes not present.
Edited ==
  ("pre-commit" :>
     [MaxDuration |-> 3,
      Checks |-> ("test" :> <<Instance("test", 21, ExtraArgs(<<"-short">>)), Instance("test", 22, ExtraArgs(<<"-race">>))>>)
              @@ ("build" :> <<Instance("build", 23, ExtraArgs(<<"-tags", "foo">>))>>)])
  @@ ("lint" :> [MaxDuration |-> 0, Checks |-> NoChecks])

Configs == {New, Edited}

\* error(nil), and an error with its kind and the name its text quotes.
NoError == [kind |-> "nil", name |-> ""]

Error(kind, name) == [kind |-> kind, name |-> name]

\* pre-commit-go.yml when there is no such file.
Absent == [kind |-> "absent", value |-> <<>>]

\* A check as yaml.Marshal writes it: its fields under their keys. The type
\* name is the key of the list the check is in.
MarshalCheck(chk) == chk.fields

\* Checks as yaml.Marshal writes it: a mapping from type names to lists.
MarshalChecks(cs) ==
  [n \in DOMAIN cs |-> [k \in 1..Len(cs[n]) |-> MarshalCheck(cs[n][k])]]

\* content, err := yaml.Marshal(config), the modes of it.
Marshal(cfg) ==
  [kind |-> "mapping",
   value |-> [md \in DOMAIN cfg |->
                [max_duration |-> cfg[md].MaxDuration,
                 checks |-> MarshalChecks(cfg[md].Checks)]]]

\* _ = os.Remove(configPath); return ioutil.WriteFile(configPath, out, 0666):
\* the file after the call, which held before: the document when it was
\* written, else no file when the old one was removed, else the old one.
Written(cfg, before, removed, written) ==
  IF written THEN Marshal(cfg)
  ELSE IF removed THEN Absent
  ELSE before

ExtraIdle ==
  /\ records = <<>>
  /\ merged = {}
  /\ profile = <<>>
  /\ all = <<>>
  /\ original = <<>>
  /\ yml = Absent

CfgIdle ==
  /\ config = New
  /\ modes = <<>>
  /\ idx = 1
  /\ out = <<>>
  /\ maxOut = 0
  /\ cpc = "idle"
  /\ node = [kind |-> "scalar", value |-> ""]
  /\ mode = ""
  /\ merr = NoError
  /\ encoded = [kind |-> "mapping", value |-> NoChecks]
  /\ cOut = NoChecks
  /\ cerr = NoError

MainIdle ==
  /\ args = <<>>
  /\ level = 1
  /\ decodeErr = FALSE
  /\ hook = "absent"
  /\ exit = "running"

\* installPrereq is not running.
PrereqIdle ==
  /\ prereqs = [i \in Tasks |-> <<>>]
  /\ exitCode = <<>>
  /\ ppc = <<>>
  /\ urlc = <<>>
  /\ m = {}
  /\ urls = <<>>
  /\ fetches = <<>>
  /\ pret = "running"

InitRun ==
  /\ enabledChecks \in CheckLists
  /\ MaxDuration \in 1..MaxBudget
  /\ now = 0
  /\ mpc = "loop"
  /\ spawned = 0
  /\ wg = 0
  /\ errs = <<>>
  /\ tpc = [i \in Tasks |-> "unborn"]
  /\ held = {}
  /\ left = [i \in Tasks |-> 0]
  /\ calls = [i \in Tasks |-> 0]
  /\ begun = [i \in Tasks |-> 0]
  /\ duration = [i \in Tasks |-> 0]
  /\ doneAt = [i \in Tasks |-> 0]
  /\ err = nil
  /\ printed = <<>>
  /\ ret = "running"
  /\ total = 0
  /\ PrereqIdle
  /\ MainIdle
  /\ CfgIdle
  /\ ExtraIdle

\* A loop that starts a check only when the checks before it have ended.
CanSpawnInTurn ==
  mpc = "loop" /\ spawned < N /\ \A i \in 1..spawned : tpc[i] = "done"

\* for _, c := range enabledChecks { wg.Add(1); go func(check) {...}(c) }
CanSpawn == mpc = "loop" /\ spawned < N

Spawn ==
  /\ CanSpawn
  /\ spawned' = spawned + 1
  /\ wg' = wg + 1
  /\ tpc' = [tpc EXCEPT ![spawned + 1] = "callRun"]
  /\ UNCHANGED <<enabledChecks, MaxDuration, now, mpc, errs, held, left,
                 calls, begun, duration, doneAt, err, printed,
                 ret, total,
                 prereqVars, otherVars>>

\* A callRun that does not take the check's lock.
CanLockAlways(i) == TRUE

\* callRun up to the call of check.Run(): l.Lock() when the check is a
\* sync.Locker, start := time.Now(), then Run() begins.
CanLock(i) == IsLocker(i) => enabledChecks[i].inst \notin held

\* A goroutine that gives up its check once a failure has been collected.
CanCallUnlessFailed(i) == tpc[i] = "callRun" /\ CanLock(i) /\ errs = <<>>

CanCall(i) == tpc[i] = "callRun" /\ CanLock(i)

\* A start taken when run began, before the lock.
StartBeforeLock(t) == 0

\* start := time.Now(), after l.Lock()
Start(t) == t

Call(i) ==
  /\ CanCall(i)
  /\ held' = IF IsLocker(i) THEN held \cup {enabledChecks[i].inst} ELSE held
  /\ begun' = [begun EXCEPT ![i] = Start(now)]
  /\ calls' = [calls EXCEPT ![i] = @ + 1]
  /\ left' = [left EXCEPT ![i] = enabledChecks[i].cost]
  /\ tpc' = [tpc EXCEPT ![i] = "Run"]
  /\ UNCHANGED <<enabledChecks, MaxDuration, now, mpc, spawned, wg, errs,
                 duration, doneAt, err, printed, ret, total,
                 prereqVars, otherVars>>

\* Where the goroutine goes after callRun returned (err, d): the first of
\* the two sends it has to make, or the deferred wg.Done().
AfterRun(i, d) ==
  IF enabledChecks[i].fails THEN "sendErr"
  ELSE IF OverBudget(d, Limit(i)) THEN "sendMax"
  ELSE "wg.Done"

\* Where the goroutine goes after errs <- err.
AfterErr(i) ==
  IF OverBudget(duration[i], Limit(i)) THEN "sendMax" ELSE "wg.Done"

\* defer wg.Done(): the goroutine has passed its two tests and ends, a step
\* of its own after callRun returned and gave the lock back.
Done(i) ==
  /\ tpc[i] = "wg.Done"
  /\ wg' = wg - 1
  /\ doneAt' = [doneAt EXCEPT ![i] = now]
  /\ tpc' = [tpc EXCEPT ![i] = "done"]
  /\ UNCHANGED <<enabledChecks, MaxDuration, now, mpc, spawned, errs, held,
                 left, calls, begun, duration, err, printed, ret, total,
                 prereqVars, otherVars>>

\* check.Run() returns: time.Now().Sub(start), the deferred l.Unlock().
CanReturn(i) == tpc[i] = "Run" /\ left[i] = 0

Return(i) ==
  /\ CanReturn(i)
  /\ duration' = [duration EXCEPT ![i] = now - begun[i]]
  /\ held' = IF IsLocker(i) THEN held \ {enabledChecks[i].inst} ELSE held
  /\ tpc' = [tpc EXCEPT ![i] = AfterRun(i, now - begun[i])]
  /\ UNCHANGED <<enabledChecks, MaxDuration, now, mpc, spawned, wg, errs, left,
                 calls, begun, doneAt, err, printed, ret, total,
                 prereqVars, otherVars>>

\* A send on the buffered channel blocks while the buffer is full.
CanSend(ch, cap) == Len(ch) < cap

\* A goroutine that prints its failure itself, when it observes it.
SendErrPrinting(i) ==
  /\ tpc[i] = "sendErr"
  /\ CanSend(errs, ErrsCap)
  /\ errs' = Append(errs, Failure(i, "err"))
  /\ printed' = Append(printed, Failure(i, "err"))
  /\ tpc' = [tpc EXCEPT ![i] = AfterErr(i)]
  /\ UNCHANGED <<enabledChecks, MaxDuration, now, mpc, spawned, wg, held, left,
                 calls, begun, duration, doneAt, err, ret, total, prereqVars,
                 otherVars>>

\* if err != nil { errs <- err }
SendErr(i) ==
  /\ tpc[i] = "sendErr"
  /\ CanSend(errs, ErrsCap)
  /\ errs' = Append(errs, Failure(i, "err"))
  /\ tpc' = [tpc EXCEPT ![i] = AfterErr(i)]
  /\ UNCHANGED <<enabledChecks, MaxDuration, now, mpc, spawned, wg, held, left,
                 calls, begun, duration, doneAt, err, printed, ret, total,
                 prereqVars, otherVars>>

\* if duration > max { errs <- fmt.Errorf("check %s took %1.2fs", ...) }
SendMax(i) ==
  /\ tpc[i] = "sendMax"
  /\ CanSend(errs, ErrsCap)
  /\ errs' = Append(errs, Failure(i, "slow"))
  /\ tpc' = [tpc EXCEPT ![i] = "wg.Done"]
  /\ UNCHANGED <<enabledChecks, MaxDuration, now, mpc, spawned, wg, held, left,
                 calls, begun, duration, doneAt, err, printed, ret, total,
                 prereqVars, otherVars>>

\* A run that does not join its goroutines.
CanWaitNoJoin == mpc = "loop" /\ spawned = N

\* wg.Wait()
CanWait == mpc = "loop" /\ spawned = N /\ wg = 0

Wait ==
  /\ CanWait
  /\ mpc' = "drain"
  /\ UNCHANGED <<enabledChecks, MaxDuration, now, spawned, wg, errs, tpc,
                 held, left, calls, begun, duration, doneAt, err, printed, ret, total,
                 prereqVars, otherVars>>

\* select { case err = <-errs: fmt.Printf("%s\n", err) ... }
Receive ==
  /\ mpc = "drain"
  /\ errs # <<>>
  /\ err' = Head(errs)
  /\ errs' = Tail(errs)
  /\ printed' = Append(printed, Head(errs))
  /\ UNCHANGED <<enabledChecks, MaxDuration, now, mpc, spawned, wg, tpc,
                 held, left, calls, begun, duration, doneAt, ret, total,
                 prereqVars, otherVars>>

\* case err := <-errs, which leaves the outer err nil.
VerdictShadowed(e) == "nil"

\* A default case taken while the channel still holds a failure.
DefaultEarly ==
  /\ mpc = "drain"
  /\ ret' = IF err # nil THEN "failed" ELSE "nil"
  /\ total' = now
  /\ mpc' = "done"
  /\ UNCHANGED <<enabledChecks, MaxDuration, now, spawned, wg, errs, tpc,
                 held, left, calls, begun, duration, doneAt, err, printed,
                 prereqVars, otherVars>>

\* default: if err != nil { return fmt.Errorf("checks failed in ...") }
\*          return err
Verdict(e) == IF e # nil THEN "failed" ELSE "nil"

Default ==
  /\ mpc = "drain"
  /\ errs = <<>>
  /\ ret' = Verdict(err)
  /\ total' = now
  /\ mpc' = "done"
  /\ UNCHANGED <<enabledChecks, MaxDuration, now, spawned, wg, errs, tpc,
                 held, left, calls, begun, duration, doneAt, err, printed,
                 prereqVars, otherVars>>

\* Some goroutine can take an instantaneous step.
Busy ==
  \/ CanSpawn
  \/ CanWait
  \/ mpc = "drain"
  \/ \E i \in Tasks :
       \/ CanCall(i)
       \/ CanReturn(i)
       \/ tpc[i] \in {"sendErr", "sendMax"} /\ CanSend(errs, ErrsCap)
       \/ tpc[i] = "wg.Done"

\* One second passes while some Check.Run() is executing.
Tick ==
  /\ ~Busy
  /\ \E i \in Tasks : tpc[i] = "Run"
  /\ now' = now + 1
  /\ left' = [i \in Tasks |-> IF tpc[i] = "Run" THEN left[i] - 1 ELSE left[i]]
  /\ UNCHANGED <<enabledChecks, MaxDuration, mpc, spawned, wg, errs, tpc,
                 held, calls, begun, duration, doneAt, err, printed, ret, total,
                 prereqVars, otherVars>>

NextRun ==
  \/ Spawn
  \/ \E i \in Tasks : Call(i)
  \/ \E i \in Tasks : Return(i)
  \/ \E i \in Tasks : SendErr(i)
  \/ \E i \in Tasks : SendMax(i)
  \/ \E i \in Tasks : Done(i)
  \/ Wait
  \/ Receive
  \/ Default
  \/ Tick

SpecRun == InitRun /\ [][NextRun]_vars

\* The Go scheduler runs every goroutine that can run.
FairSpecRun == SpecRun /\ WF_vars(NextRun)

\* --------------------------------------------------------- installPrereq
\* definitions.CheckPrerequisite.
\* HelpCommand is the command line IsPresent captures: what it stands for
\* here is the exit code that capture observes.
CheckPrerequisite == [ExpectedExitCode : {0, 1}, URL : URLs]

\* internal.Capture's exit code when the command could not be executed.
NotExecuted == -1

ExitCodes == {NotExecuted, 0, 1}

\* The check every probe-only list is made of: installPrereq reads nothing
\* of a check but its prerequisites.
PlainCheck(i) == [inst |-> i, locker |-> FALSE, fails |-> FALSE, cost |-> 1]

\* The prerequisites ps shared out among n checks: check i declares those
\* that owner gives it, in order.
Declared(ps, owner, n) ==
  [i \in 1..n |->
     [k \in 1..Cardinality({j \in DOMAIN ps : owner[j] = i}) |->
        ps[CHOOSE j \in DOMAIN ps :
             /\ owner[j] = i
             /\ Cardinality({h \in 1..j : owner[h] = i}) = k]]]

\* Every way for n checks to declare at most MaxProbes prerequisites.
PrereqLists(n) ==
  {Declared(ps, owner, n) :
     <<ps, owner>> \in
       {<<ps, owner>> \in UNION {[1..k -> CheckPrerequisite] \X [1..k -> 1..n]
                                    : k \in 0..MaxProbes} :
          \A j \in 1..(Len(ps) - 1) : owner[j] <= owner[j + 1]}}

RECURSIVE Flatten(_)
Flatten(ss) == IF ss = <<>> THEN <<>> ELSE Head(ss) \o Flatten(Tail(ss))

\* The prerequisites in the order the two nested loops meet them: one
\* goroutine each.
Probes == Flatten(prereqs)
PTasks == 1..Len(Probes)

\* make(chan string, len(enabledChecks))
UrlCap == Len(enabledChecks)

\* A probe that takes exit code 0 for "installed", whatever was declared.
IsPresentOnSuccess(p, code) == code = 0

\* CheckPrerequisite.IsPresent: exitCode == c.ExpectedExitCode
IsPresent(p, code) == code = p.ExpectedExitCode

\* m[url] = true
MapSet(mm, url) == mm \cup {url}

\* urls left in the order the map iteration gave.
SortStringsNot(s) == s

\* sort.Strings
RECURSIVE Insert(_, _)
Insert(s, x) ==
  IF s = <<>> THEN <<x>>
  ELSE IF x <= Head(s) THEN <<x>> \o s
  ELSE <<Head(s)>> \o Insert(Tail(s), x)

RECURSIVE SortStrings(_)
SortStrings(s) ==
  IF s = <<>> THEN <<>> ELSE Insert(SortStrings(Tail(s)), Head(s))

\* for url := range m { urls = append(urls, url) }: every order a map
\* iteration can produce.
MapRange(mm) ==
  {s \in [1..Cardinality(mm) -> mm] : \A i, j \in DOMAIN s : i # j => s[i] # s[j]}

RunIdle ==
  /\ MaxDuration = 1
  /\ now = 0
  /\ errs = <<>>
  /\ tpc = [i \in Tasks |-> "unborn"]
  /\ held = {}
  /\ left = [i \in Tasks |-> 0]
  /\ calls = [i \in Tasks |-> 0]
  /\ begun = [i \in Tasks |-> 0]
  /\ duration = [i \in Tasks |-> 0]
  /\ doneAt = [i \in Tasks |-> 0]
  /\ err = nil
  /\ printed = <<>>
  /\ ret = "running"
  /\ total = 0

InitPrereq ==
  /\ \E n \in 0..MaxChecks : enabledChecks = [i \in 1..n |-> PlainCheck(i)]
  /\ prereqs \in PrereqLists(N)
  /\ exitCode = [j \in PTasks |-> 0]
  /\ mpc = "probe"
  /\ spawned = 0
  /\ wg = 0
  /\ ppc = [j \in PTasks |-> "unborn"]
  /\ urlc = <<>>
  /\ m = {}
  /\ urls = <<>>
  /\ fetches = <<>>
  /\ pret = "running"
  /\ RunIdle
  /\ MainIdle
  /\ CfgIdle
  /\ ExtraIdle

\* for each check, for each prerequisite: wg.Add(1); go func(prereq) {...}(p)
PSpawn ==
  /\ mpc = "probe"
  /\ spawned < Len(Probes)
  /\ spawned' = spawned + 1
  /\ wg' = wg + 1
  /\ ppc' = [ppc EXCEPT ![spawned + 1] = "IsPresent"]
  /\ UNCHANGED <<enabledChecks, mpc, prereqs, exitCode, urlc, m, urls,
                 fetches, pret, runVars, otherVars>>

\* if !prereq.IsPresent(): the help command is captured and its exit code
\* compared; a present prerequisite ends the goroutine (defer wg.Done()).
Probe(j) ==
  /\ ppc[j] = "IsPresent"
  /\ \E code \in ExitCodes :
       /\ exitCode' = [exitCode EXCEPT ![j] = code]
       /\ IF IsPresent(Probes[j], code)
          THEN /\ ppc' = [ppc EXCEPT ![j] = "done"]
               /\ wg' = wg - 1
          ELSE /\ ppc' = [ppc EXCEPT ![j] = "send"]
               /\ wg' = wg
  /\ UNCHANGED <<enabledChecks, mpc, spawned, prereqs, urlc, m, urls,
                 fetches, pret, runVars, otherVars>>

\* c <- prereq.URL
PSend(j) ==
  /\ ppc[j] = "send"
  /\ CanSend(urlc, UrlCap)
  /\ urlc' = Append(urlc, Probes[j].URL)
  /\ ppc' = [ppc EXCEPT ![j] = "done"]
  /\ wg' = wg - 1
  /\ UNCHANGED <<enabledChecks, mpc, spawned, prereqs, exitCode, m, urls,
                 fetches, pret, runVars, otherVars>>

\* wg.Wait()
PWait ==
  /\ mpc = "probe"
  /\ spawned = Len(Probes)
  /\ wg = 0
  /\ mpc' = "collect"
  /\ UNCHANGED <<enabledChecks, spawned, wg, prereqs, exitCode, ppc, urlc, m,
                 urls, fetches, pret, runVars, otherVars>>

\* select { case url := <-c: m[url] = true ... }
PReceive ==
  /\ mpc = "collect"
  /\ urlc # <<>>
  /\ m' = MapSet(m, Head(urlc))
  /\ urlc' = Tail(urlc)
  /\ UNCHANGED <<enabledChecks, mpc, spawned, wg, prereqs, exitCode, ppc,
                 urls, fetches, pret, runVars, otherVars>>

\* default: loop = false; then urls is built from m and sorted, and
\* installPrereq returns nil when there is nothing to install.
PDefault ==
  /\ mpc = "collect"
  /\ urlc = <<>>
  /\ \E s \in MapRange(m) : urls' = SortStrings(s)
  /\ IF m = {}
     THEN mpc' = "returned" /\ pret' = "nil"
     ELSE mpc' = "get" /\ pret' = pret
  /\ UNCHANGED <<enabledChecks, spawned, wg, prereqs, exitCode, ppc, urlc, m,
                 fetches, runVars, otherVars>>

\* What a capture of "go get" can give back: its output and its error.
Outputs == {"", "text"}
OutputsU == {"", "text -u"}
Errors == {"nil", "exit status 1"}

\* One capture of "go get": the command line and what came back.
Fetch(u, us, o, e) == [upgrade |-> u, urls |-> us, out |-> o, err |-> e]

\* The retry condition on the output alone.
NeedsUpgradeOnOutput(o, e) == o # ""

\* if len(out) != 0 || err != nil
NeedsUpgrade(o, e) == o # "" \/ e # "nil"

\* A verdict on the output alone.
InstalledOnOutput(o, e) == IF o # "" THEN <<"failed", o>> ELSE "nil"

\* if len(out) != 0 { return ...out } if err != nil { return ...err }
\* return nil
Installed(o, e) ==
  IF o # "" THEN <<"failed", o>>
  ELSE IF e # "nil" THEN <<"failed", e>>
  ELSE "nil"

\* out, _, err := capture("go", "get", urls...); without -u a clean fetch
\* ends installPrereq.
Get ==
  /\ mpc = "get"
  /\ \E o \in Outputs, e \in Errors :
       /\ fetches' = Append(fetches, Fetch(FALSE, urls, o, e))
       /\ IF NeedsUpgrade(o, e)
          THEN mpc' = "getU" /\ pret' = pret
          ELSE mpc' = "returned" /\ pret' = Installed(o, e)
  /\ UNCHANGED <<enabledChecks, spawned, wg, prereqs, exitCode, ppc, urlc, m,
                 urls, runVars, otherVars>>

\* out, _, err = capture("go", "get", "-u", urls...)
GetU ==
  /\ mpc = "getU"
  /\ \E o \in OutputsU, e \in Errors :
       /\ fetches' = Append(fetches, Fetch(TRUE, urls, o, e))
       /\ pret' = Installed(o, e)
  /\ mpc' = "returned"
  /\ UNCHANGED <<enabledChecks, spawned, wg, prereqs, exitCode, ppc, urlc, m,
                 urls, runVars, otherVars>>

NextPrereq ==
  \/ PSpawn
  \/ \E j \in PTasks : Probe(j)
  \/ \E j \in PTasks : PSend(j)
  \/ PWait
  \/ PReceive
  \/ PDefault
  \/ Get
  \/ GetU

SpecPrereq == InitPrereq /\ [][NextPrereq]_vars

\* The Go scheduler runs every goroutine that can run.
FairSpecPrereq == SpecPrereq /\ WF_vars(NextPrereq)

\* ------------------------------------------------- mainImpl, main, install
\* cmd: "installrun" when no command is given, else os.Args[1].
Cmd == IF args = <<>> THEN "installrun" ELSE args[1]

\* The case of the switch a command falls in.
CmdCase(c) ==
  CASE c \in {"help", "-help", "-h"} -> "help"
    [] c \in {"install", "i"} -> "install"
    [] c = "installrun" -> "installrun"
    [] c \in {"prereq", "p"} -> "prereq"
    [] c \in {"run", "r"} -> "run"
    [] c \in {"writeconfig", "w"} -> "writeconfig"
    [] OTHER -> "default"

ArgLists ==
  {<<>>} \cup {<<c>> : c \in {"help", "-h", "install", "installrun", "prereq",
                              "p", "run", "writeconfig", "status"}}

\* Values of -level: below, inside and above the accepted 0..3.
Levels == {-1, 1, 4}

\* if *runLevelFlag < 0 || *runLevelFlag > 3
LevelInvalid(l) == l < 0 \/ l > 3

\* The lists mainImpl is looked at with: distinct checks without lock, each
\* of which passes in time, fails in time or passes over the budget, and
\* needs one tool.
Outcomes ==
  {[fails |-> FALSE, cost |-> 1], [fails |-> TRUE, cost |-> 1],
   [fails |-> FALSE, cost |-> 2]}

MainCheckLists ==
  UNION {{[i \in 1..n |->
             [inst |-> i, locker |-> FALSE, fails |-> o[i].fails,
              cost |-> o[i].cost]]
            : o \in [1..n -> Outcomes]} : n \in 0..MaxChecks}

MainPrereqs(n) ==
  [i \in 1..n |-> <<[ExpectedExitCode |-> 0, URL |-> 2 - (i % 2)]>>]

InitMain ==
  /\ args \in ArgLists
  /\ level \in Levels
  /\ decodeErr = FALSE
  /\ hook = "absent"
  /\ exit = "running"
  /\ mpc = "main"
  /\ enabledChecks \in MainCheckLists
  /\ prereqs = MainPrereqs(N)
  /\ exitCode = [j \in PTasks |-> 0]
  /\ ppc = [j \in PTasks |-> "unborn"]
  /\ urlc = <<>>
  /\ m = {}
  /\ urls = <<>>
  /\ fetches = <<>>
  /\ pret = "running"
  /\ spawned = 0
  /\ wg = 0
  /\ RunIdle
  /\ CfgIdle
  /\ ExtraIdle

\* mainImpl down to os.Chdir(gitRoot): the flags are parsed, then the root
\* of the git checkout is looked for and entered.
MainStart ==
  /\ mpc = "main"
  /\ \E gitRoot \in {"found", "failed"} :
       IF LevelInvalid(level) \/ gitRoot = "failed"
       THEN mpc' = "exit" /\ exit' = "1"
       ELSE mpc' = "config" /\ exit' = exit
  /\ UNCHANGED <<enabledChecks, spawned, wg, args, level, decodeErr, hook,
                 runVars, prereqVars, cfgVars, extraVars>>

\* getConfig: the error of the decoder is dropped (_ = json.Unmarshal) and
\* the Config is returned whatever happened.
GetConfig(file) == file = "malformed"

\* Where the switch on cmd sends mainImpl, and what it returns at once.
Switch(c) ==
  CASE CmdCase(c) \in {"install", "installrun", "prereq"} -> <<"probe", "running">>
    [] CmdCase(c) = "run" -> <<"loop", "running">>
    [] CmdCase(c) = "help" -> <<"exit", "0">>
    [] CmdCase(c) = "default" -> <<"exit", "1">>

\* config := getConfig(); switch cmd {...}
Dispatch ==
  /\ mpc = "config"
  /\ \E file \in {"absent", "decoded", "malformed"} :
       decodeErr' = GetConfig(file)
  /\ IF CmdCase(Cmd) = "writeconfig"
     THEN /\ mpc' = "exit"
          /\ \E removed, written \in BOOLEAN :
               /\ yml' = Written(config, yml, removed, written)
               /\ exit' = IF written THEN "0" ELSE "1"
     ELSE /\ mpc' = Switch(Cmd)[1]
          /\ exit' = Switch(Cmd)[2]
          /\ yml' = yml
  /\ UNCHANGED <<enabledChecks, spawned, wg, args, level, hook, runVars,
                 prereqVars, cfgVars, records, merged, profile, all,
                 original>>

\* install after installPrereq returned: its error is returned, else the
\* git directory is looked for and the hook is written.
\* case "install": return install(); case "installrun": if err := install();
\* err != nil { return err }; return run().
InstallAbortsOnGitOnly(p, gitDir) == gitDir = "failed"

InstallAborts(p, gitDir) == p # "nil" \/ gitDir = "failed"

Install ==
  /\ mpc = "returned"
  /\ CmdCase(Cmd) \in {"install", "installrun"}
  /\ \E gitDir \in {"found", "failed"}, written \in BOOLEAN :
       IF InstallAborts(pret, gitDir)
       THEN mpc' = "exit" /\ exit' = "1" /\ hook' = hook
       ELSE /\ hook' = IF written THEN "installed" ELSE "absent"
            /\ IF ~written
               THEN mpc' = "exit" /\ exit' = "1"
               ELSE IF CmdCase(Cmd) = "install"
               THEN mpc' = "exit" /\ exit' = "0"
               ELSE mpc' = "loop" /\ exit' = exit
  /\ spawned' = 0
  /\ UNCHANGED <<enabledChecks, wg, args, level, decodeErr, runVars,
                 prereqVars, cfgVars, extraVars>>

\* main: os.Exit(1) when mainImpl returned an error.
ExitStatus(failed) == IF failed THEN "1" ELSE "0"

\* case "prereq": return installPrereq()
PrereqExit ==
  /\ mpc = "returned"
  /\ CmdCase(Cmd) = "prereq"
  /\ mpc' = "exit"
  /\ exit' = ExitStatus(pret # "nil")
  /\ UNCHANGED <<enabledChecks, spawned, wg, args, level, decodeErr, hook,
                 runVars, prereqVars, cfgVars, extraVars>>

\* return run()
RunExit ==
  /\ mpc = "done"
  /\ mpc' = "exit"
  /\ exit' = ExitStatus(ret # "nil")
  /\ UNCHANGED <<enabledChecks, spawned, wg, args, level, decodeErr, hook,
                 runVars, prereqVars, cfgVars, extraVars>>

NextMain ==
  \/ MainStart
  \/ Dispatch
  \/ NextPrereq
  \/ Install
  \/ PrereqExit
  \/ NextRun
  \/ RunExit

SpecMain == InitMain /\ [][NextMain]_vars

\* ------------------------------------------------------ properties of run
Range(s) == {s[i] : i \in DOMAIN s}

\* The failures the goroutines have put on the channel so far.
Collected == Range(printed) \cup Range(errs)

AllDone == \A i \in Tasks : tpc[i] = "done"

\* C1: when run has returned, it returned the aggregate error if and only
\* if some check's Run() failed or some check ran longer than MaxDuration,
\* which is if and only if some failure was collected; otherwise nil.
C1_VerdictIffFailure ==
  mpc = "done" =>
    /\ ret \in {"failed", "nil"}
    /\ ret = "failed" <=> Collected # {}
    /\ ret = "failed" <=>
         \E i \in Tasks : enabledChecks[i].fails \/ duration[i] > MaxDuration

C1_Witness ==
  /\ mpc = "done"
  /\ ret = "failed"
  /\ \A i \in Tasks : ~enabledChecks[i].fails
  /\ \E i \in Tasks : duration[i] > MaxDuration

\* C2: under fair scheduling run eventually returns a verdict.
C2_RunReturns == <>(mpc = "done")

\* C3: the verdict is computed only when every check goroutine has ended,
\* and by then every failure of every check has been received and printed
\* and none is left on the channel.
C3_NothingLost ==
  /\ mpc \in {"drain", "done"} => AllDone
  /\ mpc = "done" =>
       /\ errs = <<>>
       /\ \A i \in Tasks :
            /\ enabledChecks[i].fails => Failure(i, "err") \in Range(printed)
            /\ enabledChecks[i].cost > MaxDuration =>
                 Failure(i, "slow") \in Range(printed)

C3_Witness ==
  /\ mpc = "done"
  /\ \E i, j \in Tasks :
       /\ i # j
       /\ Failure(i, "err") \in Range(printed)
       /\ Failure(j, "slow") \in Range(printed)

\* C4: a check goroutine collects the budget failure only if its own Run()
\* took strictly more than MaxDuration seconds, and a goroutine that has
\* ended has collected it exactly in that case, whether Run() failed or not.
C4_BudgetExactlyWhenOver ==
  \A i \in Tasks :
    /\ Failure(i, "slow") \in Collected => enabledChecks[i].cost > MaxDuration
    /\ tpc[i] = "done" =>
         (Failure(i, "slow") \in Collected <=>
            enabledChecks[i].cost > MaxDuration)

C4_Witness ==
  \E i, j \in Tasks :
    /\ tpc[i] = "done" /\ tpc[j] = "done"
    /\ ~enabledChecks[i].fails
    /\ enabledChecks[i].cost > MaxDuration
    /\ Failure(i, "slow") \in Collected
    /\ enabledChecks[j].cost = MaxDuration
    /\ Failure(j, "slow") \notin Collected

\* No goroutine of run can take a step and no Run() is executing.
Quiescent == ~Busy /\ \A i \in Tasks : tpc[i] # "Run"

\* C5: Run() is invoked at most once per entry of the enabled list, and
\* whenever nothing can move any more (run has returned or not), and
\* whenever the verdict is being computed, every entry has had its Run()
\* invoked exactly once and run to its end.
C5_EveryCheckRunsOnce ==
  /\ \A i \in Tasks : calls[i] <= 1
  /\ (Quiescent \/ mpc \in {"drain", "done"}) =>
       \A i \in Tasks :
         /\ calls[i] = 1
         /\ left[i] = 0
         /\ tpc[i] \in {"sendErr", "sendMax", "wg.Done", "done"}

C5_Witness ==
  /\ mpc = "done"
  /\ \E i, j \in Tasks :
       /\ enabledChecks[i].fails
       /\ enabledChecks[i].cost < enabledChecks[j].cost
       /\ calls[j] = 1
       /\ doneAt[j] > doneAt[i]

\* No check instance occurs twice in the enabled list.
DistinctInstances ==
  \A i, j \in Tasks : i # j => enabledChecks[i].inst # enabledChecks[j].inst

RECURSIVE MaxCost(_)
MaxCost(cs) ==
  IF cs = <<>> THEN 0
  ELSE IF Head(cs).cost > MaxCost(Tail(cs)) THEN Head(cs).cost
  ELSE MaxCost(Tail(cs))

\* C6: with distinct check instances every Run() begins when run begins,
\* whatever the other checks are doing, and run returns when the slowest
\* Run() ends: after max, not sum, of the durations.
C6_Concurrent ==
  DistinctInstances =>
    /\ \A i \in Tasks : tpc[i] \notin {"unborn", "callRun"} => begun[i] = 0
    /\ mpc = "done" => total = MaxCost(enabledChecks)

C6_Witness ==
  /\ N >= 2
  /\ DistinctInstances
  /\ \A i \in Tasks : tpc[i] = "Run" /\ left[i] > 0
  /\ \E i, j \in Tasks : enabledChecks[i].cost # enabledChecks[j].cost

\* C7: a run whose total wall-clock time is more than MaxDuration returns
\* the aggregate error.
C7_TotalOverBudgetFails ==
  (mpc = "done" /\ total > MaxDuration) => ret = "failed"

\* C8 as stated: once every check has ended, the failures of a check that
\* ended before another one are already printed.
C8_PrintedWhenObserved ==
  AllDone =>
    \A i, j \in Tasks :
      doneAt[i] < doneAt[j] =>
        \A f \in Collected : f.check = i => f \in Range(printed)

\* C8 amended: nothing is printed before every check goroutine has ended;
\* the collected failures are all printed after that, and the summary error
\* returned after them carries the time since run began.
C8_PrintedAfterJoin ==
  /\ printed # <<>> => AllDone /\ mpc \in {"drain", "done"}
  /\ (mpc = "done" /\ ret = "failed") =>
       /\ total = now
       /\ \A i \in Tasks : total >= doneAt[i]
       /\ Len(printed) =
            Cardinality({i \in Tasks : enabledChecks[i].fails})
            + Cardinality({i \in Tasks : enabledChecks[i].cost > MaxDuration})

C8_Witness ==
  /\ mpc = "done"
  /\ ret = "failed"
  /\ \E i, j \in Tasks :
       /\ doneAt[i] < doneAt[j]
       /\ Failure(i, "err") \in Range(printed)

\* ------------------------------------------- properties of installPrereq
Probed == {j \in PTasks : ppc[j] \in {"send", "done"}}

\* The probe goroutines whose help command did not end with the declared
\* exit code.
Mismatched == {j \in Probed : exitCode[j] # Probes[j].ExpectedExitCode}

MissingURLs == {Probes[j].URL : j \in Mismatched}

Resolved == mpc \in {"get", "getU", "returned"}

\* C9: a probe goroutine reports its URL only when the observed exit code
\* differs from the expected one (a command that could not be executed
\* included); once the probes are resolved the missing URLs are exactly the
\* URLs of the mismatching prerequisites, each of them listed once.
C9_MissingIffMismatch ==
  /\ \A j \in PTasks : ppc[j] = "send" => j \in Mismatched
  /\ Range(urlc) \cup m \subseteq MissingURLs
  /\ Resolved =>
       /\ Range(urls) = MissingURLs
       /\ Len(urls) = Cardinality(MissingURLs)

C9_Witness ==
  /\ Resolved
  /\ N = 2
  /\ Len(prereqs[1]) = 1 /\ Len(prereqs[2]) = 1
  /\ prereqs[1][1].URL = prereqs[2][1].URL
  /\ Mismatched = {1, 2}
  /\ exitCode[1] = NotExecuted
  /\ exitCode[2] # NotExecuted
  /\ Len(urls) = 1

\* C10: the first "go get" is without -u and names all the missing URLs;
\* a second one, with -u and the same URLs, is run only when the first one
\* gave output or an error, and then always; there are never more than two;
\* and none is run when nothing is missing.
C10_FetchOrder ==
  /\ Len(fetches) <= 2
  /\ fetches # <<>> =>
       /\ Resolved
       /\ MissingURLs # {}
       /\ ~fetches[1].upgrade
       /\ Range(fetches[1].urls) = MissingURLs
  /\ Len(fetches) = 2 =>
       /\ fetches[2].upgrade
       /\ fetches[2].urls = fetches[1].urls
       /\ fetches[1].out # "" \/ fetches[1].err # "nil"
  /\ mpc = "getU" => Len(fetches) = 1
  /\ mpc = "returned" =>
       /\ MissingURLs = {} <=> fetches = <<>>
       /\ Len(fetches) = 1 => fetches[1].out = "" /\ fetches[1].err = "nil"

C10_Witness ==
  /\ mpc = "returned"
  /\ Len(fetches) = 2
  /\ fetches[1].out = ""
  /\ fetches[1].err # "nil"
  /\ Len(fetches[1].urls) = 2

\* -------------------------------------------------- more properties of run
\* C19: two Run() of the same sync.Locker instance never execute at the
\* same time; the lock is held exactly while a Run() of the instance is
\* executing, so it is released when Run() returns; and a goroutine waits
\* for the lock only while another entry of the same instance is executing:
\* distinct instances never wait for each other.
C19_LockerSerializes ==
  /\ \A i, j \in Tasks :
       (/\ i # j
        /\ IsLocker(i)
        /\ enabledChecks[i].inst = enabledChecks[j].inst)
       => ~(tpc[i] = "Run" /\ tpc[j] = "Run")
  /\ held = {enabledChecks[i].inst : i \in {k \in Tasks : IsLocker(k) /\ tpc[k] = "Run"}}
  /\ \A i \in Tasks :
       (tpc[i] = "callRun" /\ ~CanCall(i)) =>
         \E j \in Tasks :
           /\ j # i
           /\ enabledChecks[j].inst = enabledChecks[i].inst
           /\ tpc[j] = "Run"
  /\ AllDone => held = {}

C19_Witness ==
  \E i, j \in Tasks :
    /\ i # j
    /\ IsLocker(i)
    /\ enabledChecks[i].inst = enabledChecks[j].inst
    /\ tpc[i] = "Run" /\ calls[i] = 1
    /\ tpc[j] \in {"sendErr", "sendMax", "wg.Done", "done"}
    /\ begun[i] >= begun[j] + enabledChecks[j].cost
    /\ held = {enabledChecks[i].inst}

\* ------------------------------------- more properties of installPrereq
\* C20: the missing URLs are returned, and handed to "go get", in strictly
\* ascending order, whatever the order the probes were declared and ended
\* in and whatever order the map iteration gave.
C20_UrlsSorted ==
  /\ \A i, j \in DOMAIN urls : i < j => urls[i] < urls[j]
  /\ \A k \in DOMAIN fetches :
       \A i, j \in DOMAIN fetches[k].urls :
         i < j => fetches[k].urls[i] < fetches[k].urls[j]

C20_Witness ==
  /\ Resolved
  /\ Len(Probes) = 2
  /\ Probes[1].URL > Probes[2].URL
  /\ Mismatched = {1, 2}
  /\ urls = <<Probes[2].URL, Probes[1].URL>>
  /\ fetches # <<>>

\* ------------------------------------- run with per-check budgets
\* The enabled lists of that runner, times in half seconds: the first check
\* fails or not and declares a budget or none (0); the others pass and
\* declare none.
FirstChecks ==
  [inst : {1}, locker : {FALSE}, fails : BOOLEAN, cost : 1..MaxExec,
   max : 0..MaxBudget]

OtherChecks(i) ==
  [inst : {i}, locker : {FALSE}, fails : {FALSE}, cost : 1..MaxExec,
   max : {0}]

RECURSIVE BudgetLists(_)
BudgetLists(n) ==
  IF n = 0 THEN {<<>>}
  ELSE IF n = 1 THEN {<<>>} \cup {<<x>> : x \in FirstChecks}
  ELSE BudgetLists(n - 1) \cup
       {Append(l, x) : l \in {y \in BudgetLists(n - 1) : Len(y) = n - 1},
                       x \in OtherChecks(n)}

InitBudget ==
  /\ enabledChecks \in BudgetLists(MaxChecks)
  /\ MaxDuration \in 1..MaxBudget
  /\ now = 0
  /\ mpc = "loop"
  /\ spawned = 0
  /\ wg = 0
  /\ errs = <<>>
  /\ tpc = [i \in Tasks |-> "unborn"]
  /\ held = {}
  /\ left = [i \in Tasks |-> 0]
  /\ calls = [i \in Tasks |-> 0]
  /\ begun = [i \in Tasks |-> 0]
  /\ duration = [i \in Tasks |-> 0]
  /\ doneAt = [i \in Tasks |-> 0]
  /\ err = nil
  /\ printed = <<>>
  /\ ret = "running"
  /\ total = 0
  /\ PrereqIdle
  /\ MainIdle
  /\ CfgIdle
  /\ ExtraIdle

SpecBudget == InitBudget /\ [][NextRun]_vars

\* ------------------------------------------------------ Config.allChecks
\* all := []Check{&c.Build, &c.Gofmt, &c.Test, &c.Errcheck, &c.Goimports,
\* &c.Golint, &c.Govet, &c.TestCoverage}, then the custom checks.
BuiltIn ==
  <<"build", "gofmt", "test", "errcheck", "goimports", "golint", "govet",
    "testcoverage">>

\* The checks that need a tool, and the one custom check of the file.
NeedsTool == {"errcheck", "goimports", "golint", "govet", "testcoverage"}

AllNames == BuiltIn \o <<"custom">>

\* What the tool of the k-th check is declared with: every check has a
\* tool, and so a package URL, of its own.
ToolOf(k) == <<[ExpectedExitCode |-> 0, URL |-> k]>>

\* What a run() of a check does, times in half seconds: it passes, it
\* fails, or it passes in more than the budget it declares.
Behaviours ==
  {[fails |-> FALSE, cost |-> 1, max |-> 0],
   [fails |-> TRUE, cost |-> 1, max |-> 0],
   [fails |-> FALSE, cost |-> 3, max |-> 2]}

\* The Config with the checks of E enabled, behaving as b says.
ConfigOf(E, b) ==
  [k \in 1..Len(AllNames) |->
     [name |-> AllNames[k],
      custom |-> k > Len(BuiltIn),
      Enabled |-> k \in E,
      fails |-> IF k \in E THEN b[k].fails ELSE FALSE,
      cost |-> IF k \in E THEN b[k].cost ELSE 1,
      max |-> IF k \in E THEN b[k].max ELSE 0,
      prereqs |-> IF AllNames[k] \in NeedsTool \/ k > Len(BuiltIn)
                  THEN ToolOf(k) ELSE <<>>]]

\* The sets of at most MaxChecks enabled checks.
EnabledSets ==
  {E \in SUBSET (1..Len(AllNames)) : Cardinality(E) <= MaxChecks}

InitAll ==
  /\ mpc \in {"installPrereq", "run"}
  /\ \E E \in EnabledSets :
       IF mpc = "run"
       THEN \E b \in [E -> Behaviours] : all = ConfigOf(E, b)
       ELSE all = ConfigOf(E, [k \in E |-> [fails |-> FALSE, cost |-> 1, max |-> 0]])
  /\ enabledChecks = <<>>
  /\ prereqs = <<>>
  /\ exitCode = <<>>
  /\ ppc = <<>>
  /\ urlc = <<>>
  /\ m = {}
  /\ urls = <<>>
  /\ fetches = <<>>
  /\ pret = "running"
  /\ spawned = 0
  /\ wg = 0
  /\ MaxDuration = 240
  /\ now = 0
  /\ errs = <<>>
  /\ tpc = <<>>
  /\ held = {}
  /\ left = <<>>
  /\ calls = <<>>
  /\ begun = <<>>
  /\ duration = <<>>
  /\ doneAt = <<>>
  /\ err = nil
  /\ printed = <<>>
  /\ ret = "running"
  /\ total = 0
  /\ records = <<>>
  /\ merged = {}
  /\ profile = <<>>
  /\ original = <<>>
  /\ yml = Absent
  /\ MainIdle
  /\ CfgIdle

\* A filter that keeps every check.
KeepsAll(chk) == TRUE

\* if c.enabled() { out = append(out, c) }
Keeps(chk) == chk.Enabled

\* The positions in all of the checks that are kept, in order.
RECURSIVE Kept(_, _)
Kept(cs, k) ==
  IF k > Len(cs) THEN <<>>
  ELSE IF Keeps(cs[k]) THEN <<k>> \o Kept(cs, k + 1)
  ELSE Kept(cs, k + 1)

\* checks := config.allChecks(), at the start of installPrereq and of run.
AllChecks ==
  /\ mpc \in {"installPrereq", "run"}
  /\ mpc' = IF mpc = "run" THEN "loop" ELSE "probe"
  /\ LET out1 == Kept(all, 1)
         n == Len(out1)
         np == Len(Flatten([i \in 1..n |-> all[out1[i]].prereqs]))
     IN  /\ enabledChecks' =
              [i \in 1..n |->
                 [inst |-> out1[i], locker |-> FALSE,
                  fails |-> all[out1[i]].fails, cost |-> all[out1[i]].cost,
                  max |-> all[out1[i]].max]]
         /\ prereqs' = [i \in 1..n |-> all[out1[i]].prereqs]
         /\ exitCode' = [j \in 1..np |-> 0]
         /\ ppc' = [j \in 1..np |-> "unborn"]
         /\ tpc' = [i \in 1..n |-> "unborn"]
         /\ left' = [i \in 1..n |-> 0]
         /\ calls' = [i \in 1..n |-> 0]
         /\ begun' = [i \in 1..n |-> 0]
         /\ duration' = [i \in 1..n |-> 0]
         /\ doneAt' = [i \in 1..n |-> 0]
  /\ UNCHANGED <<spawned, wg, MaxDuration, now, errs, held, err, printed, ret,
                 total, urlc, m, urls, fetches, pret, otherVars>>

NextAll ==
  \/ AllChecks
  \/ NextPrereq
  \/ NextRun

SpecAll == InitAll /\ [][NextAll]_vars

\* ------------------------------------------------- Config.EnabledChecks
\* The lists of modes a caller asks for: up to n modes, a mode possibly more
\* than once; continuous-integration, whose five check types can be visited
\* in 120 orders, at most once.
RECURSIVE ModeLists(_)
ModeLists(n) ==
  IF n = 0 THEN {<<>>}
  ELSE ModeLists(n - 1) \cup
       {Append(l, AllModes[k]) : l \in {x \in ModeLists(n - 1) : Len(x) = n - 1},
                                 k \in 1..Len(AllModes)}

AskedLists ==
  {l \in ModeLists(MaxModes) :
     Cardinality({k \in 1..Len(l) : l[k] = "continuous-integration"}) <= 1}

\* c.Modes[mode]: the zero Settings when the map has no such key.
SettingsWithLint(cfg, md) ==
  IF md = "continuous-integration" /\ "lint" \in DOMAIN cfg THEN cfg["lint"]
  ELSE IF md \in DOMAIN cfg THEN cfg[md]
  ELSE [MaxDuration |-> 0, Checks |-> NoChecks]

Settings(cfg, md) ==
  IF md \in DOMAIN cfg THEN cfg[md]
  ELSE [MaxDuration |-> 0, Checks |-> NoChecks]

\* The orders in which a range over a Go map can visit the keys S: all.
RECURSIVE Orders(_)
Orders(S) ==
  IF S = {} THEN {<<>>}
  ELSE UNION {{<<x>> \o p : p \in Orders(S \ {x})} : x \in S}

\* for _, checks := range ... { out = append(out, checks...) }, the keys
\* visited in the order p.
RECURSIVE Gather(_, _)
Gather(checks, p) ==
  IF p = <<>> THEN <<>> ELSE checks[Head(p)] \o Gather(checks, Tail(p))

\* if c.Modes[mode].MaxDuration > max { max = c.Modes[mode].MaxDuration }
NextMaxSum(d, mx) == mx + d

NextMax(d, mx) == IF d > mx THEN d ELSE mx

InitEnabled ==
  /\ config \in Configs
  /\ modes \in AskedLists
  /\ idx = 1
  /\ out = <<>>
  /\ maxOut = 0
  /\ cpc = "EnabledChecks"
  /\ node = [kind |-> "scalar", value |-> ""]
  /\ mode = ""
  /\ merr = NoError
  /\ encoded = [kind |-> "mapping", value |-> NoChecks]
  /\ cOut = NoChecks
  /\ cerr = NoError
  /\ enabledChecks = <<>>
  /\ mpc = "idle"
  /\ spawned = 0
  /\ wg = 0
  /\ RunIdle
  /\ PrereqIdle
  /\ MainIdle
  /\ ExtraIdle

\* One turn of "for _, mode := range modes".
EnabledChecksMode ==
  /\ cpc = "EnabledChecks"
  /\ idx <= Len(modes)
  /\ LET st == Settings(config, modes[idx]) IN
       /\ \E p \in Orders(DOMAIN st.Checks) :
            out' = out \o Gather(st.Checks, p)
       /\ maxOut' = NextMax(st.MaxDuration, maxOut)
  /\ idx' = idx + 1
  /\ UNCHANGED <<config, modes, cpc, node, mode, merr, encoded, cOut, cerr,
                 enabledChecks, mpc, spawned, wg, runVars, prereqVars,
                 mainVars, extraVars>>

\* return out, max
EnabledChecksReturn ==
  /\ cpc = "EnabledChecks"
  /\ idx > Len(modes)
  /\ cpc' = "returned"
  /\ UNCHANGED <<config, modes, idx, out, maxOut, node, mode, merr, encoded,
                 cOut, cerr, enabledChecks, mpc, spawned, wg, runVars,
                 prereqVars, mainVars, extraVars>>

NextEnabled ==
  \/ EnabledChecksMode
  \/ EnabledChecksReturn

SpecEnabled == InitEnabled /\ [][NextEnabled]_vars

\* ------------------------------------------------------ coverage merge
\* The most test runs whose records are merged.
MaxRuns == 2

\* The files the runs cover and the executable lines of each.
Files == {"a.go", "b.go"}

ExecutableLines == 1..5

\* What one run can report for a file.
LineSets == {{}, {5}, {1, 2, 3}, {3, 4, 5}}

Records == [file : Files, lines : LineSets]

RECURSIVE RunLists(_)
RunLists(n) ==
  IF n = 0 THEN {<<>>}
  ELSE RunLists(n - 1) \cup
       {Append(l, r) : l \in {x \in RunLists(n - 1) : Len(x) = n - 1},
                       r \in Records}

\* The covered lines the model holds for a file.
CoveredIn(p, f) == IF f \in DOMAIN p THEN p[f] ELSE {}

\* A merge in which the later record of a file replaces the earlier one.
MergeReplacing(p, rec) ==
  [f \in DOMAIN p \cup {rec.file} |->
     IF f = rec.file THEN rec.lines ELSE CoveredIn(p, f)]

\* One record merged into the model: a line covered by any run is covered.
Merge(p, rec) ==
  [f \in DOMAIN p \cup {rec.file} |->
     IF f = rec.file THEN CoveredIn(p, f) \cup rec.lines ELSE CoveredIn(p, f)]

\* The global ratio, as covered over total executable lines.
Ratio(p) ==
  <<Cardinality({x \in Files \X ExecutableLines : x[2] \in CoveredIn(p, x[1])}),
    Cardinality(Files \X ExecutableLines)>>

InitCoverage ==
  /\ records \in RunLists(MaxRuns)
  /\ merged = {}
  /\ profile = <<>>
  /\ all = <<>>
  /\ original = <<>>
  /\ yml = Absent
  /\ enabledChecks = <<>>
  /\ mpc = "idle"
  /\ spawned = 0
  /\ wg = 0
  /\ RunIdle
  /\ PrereqIdle
  /\ MainIdle
  /\ CfgIdle

\* The record of one more run is merged, the runs in any order.
MergeRun ==
  /\ \E r \in DOMAIN records \ merged :
       /\ profile' = Merge(profile, records[r])
       /\ merged' = merged \cup {r}
  /\ UNCHANGED <<records, all, original, yml, enabledChecks, mpc, spawned, wg,
                 runVars, prereqVars, mainVars, cfgVars>>

NextCoverage == MergeRun

SpecCoverage == InitCoverage /\ [][NextCoverage]_vars

\* ------------------------------------------------- properties of mainImpl
Probing == \E j \in PTasks : ppc[j] # "unborn"

Executing == \E i \in Tasks : tpc[i] # "unborn"

\* C11: installrun, which is also what no command means, installs the
\* prerequisites, then writes the hook, then runs the checks, each step
\* only after the one before succeeded: while the prerequisites are being
\* installed the hook is not written and no check has started, a failed
\* installation leaves the hook unwritten and every check unexecuted, and
\* a check only starts once the hook is written.
C11_InstallRunInOrder ==
  /\ args = <<>> => CmdCase(Cmd) = "installrun"
  /\ CmdCase(Cmd) = "installrun" =>
       /\ hook = "installed" => pret = "nil"
       /\ Executing => (pret = "nil" /\ hook = "installed")
       /\ (pret # "nil" /\ pret # "running") =>
            (hook = "absent" /\ ~Executing /\ \A i \in Tasks : calls[i] = 0)
       /\ mpc \in {"probe", "collect", "get", "getU"} =>
            (hook = "absent" /\ ~Executing)
       /\ exit = "0" => (ret = "nil" /\ hook = "installed" /\ pret = "nil")

C11_Witness ==
  /\ args = <<>>
  /\ fetches # <<>>
  /\ hook = "installed"
  /\ N > 0
  /\ \A i \in Tasks : calls[i] = 1
  /\ mpc = "exit"

\* C18: a persisted configuration that failed to decode is fatal before
\* anything runs: no prerequisite is probed, no check is executed, and the
\* command does not exit with status 0.
C18_ConfigErrorFatal ==
  decodeErr => (~Probing /\ ~Executing /\ exit # "0")

\* ------------------------------ Mode.UnmarshalYAML, Checks.UnmarshalYAML
\* The scalars a file can give as a mode, and a node that is no scalar.
ModeStrings ==
  Range(AllModes) \cup {"", "Lint", "all", "precommit", "pre-commit "}

ModeNodes ==
  {[kind |-> "scalar", value |-> v] : v \in ModeStrings}
    \cup {[kind |-> "sequence", value |-> ""]}

\* for _, known := range AllModes { if val == known {...} }
IsKnownFolded(val) == val \in Range(AllModes) \cup {"Lint"}

IsKnown(val) == \E k \in 1..Len(AllModes) : val = AllModes[k]

\* The registry of check types.
KnownChecks ==
  {"build", "coverage", "custom", "errcheck", "gofmt", "goimports", "golint",
   "govet", "test"}

\* The keys of an encoded "checks" mapping: two registered, two not.
EncodedNames == {"build", "test", "tests", "vet"}

\* The keys the fields of a variant are serialized under, and the kind of
\* value each of them takes.
Fields(name) ==
  CASE name \in {"build", "test"} -> "extra_args" :> "sequence"
    [] name = "errcheck" -> "ignores" :> "scalar"
    [] name \in {"golint", "govet"} -> "blacklist" :> "sequence"
    [] name = "coverage" ->
         ("use_coveralls" :> "scalar") @@ ("global" :> "mapping")
           @@ ("per_dir_default" :> "mapping") @@ ("per_dir" :> "mapping")
    [] name = "custom" ->
         ("display_name" :> "scalar") @@ ("description" :> "scalar")
           @@ ("command" :> "sequence") @@ ("check_exit_code" :> "scalar")
           @@ ("prerequisites" :> "sequence")
    [] OTHER -> [f \in {} |-> "scalar"]

\* A per-check block of build or test: the field of the variant, a field
\* the variant does not have, or the field of the variant with a value of
\* the wrong kind.
Blocks ==
  {ExtraArgs(<<"-v">>),
   "extar_args" :> Value("sequence", <<"-v">>),
   "extra_args" :> Value("scalar", <<"5">>)}

RECURSIVE BlockLists(_)
BlockLists(n) ==
  IF n = 0 THEN {<<>>}
  ELSE BlockLists(n - 1) \cup
       {Append(l, b) : l \in {x \in BlockLists(n - 1) : Len(x) = n - 1},
                       b \in Blocks}

\* The mappings from check type names to lists of blocks.
RECURSIVE Encodings(_)
Encodings(S) ==
  IF S = {} THEN {NoChecks}
  ELSE LET n == CHOOSE x \in S : TRUE
           rest == Encodings(S \ {n})
       IN  rest \cup {(n :> l) @@ e : l \in BlockLists(MaxBlocks), e \in rest}

EncodedNodes ==
  {[kind |-> "mapping", value |-> e] : e \in Encodings(EncodedNames)}
    \cup {[kind |-> "sequence", value |-> NoChecks]}

\* What *c holds before the call.
Before == {NoChecks, "gofmt" :> <<Instance("gofmt", 2, NoFields)>>}

InitDecode ==
  /\ cpc \in {"Mode.UnmarshalYAML", "Checks.UnmarshalYAML"}
  /\ IF cpc = "Mode.UnmarshalYAML"
     THEN /\ node \in ModeNodes
          /\ mode \in {""} \cup Range(AllModes)
          /\ encoded = [kind |-> "mapping", value |-> NoChecks]
          /\ cOut = NoChecks
     ELSE /\ node = [kind |-> "scalar", value |-> ""]
          /\ mode = ""
          /\ encoded \in EncodedNodes
          /\ cOut \in Before
  /\ merr = NoError
  /\ cerr = NoError
  /\ config = New
  /\ modes = <<>>
  /\ idx = 1
  /\ out = <<>>
  /\ maxOut = 0
  /\ enabledChecks = <<>>
  /\ mpc = "idle"
  /\ spawned = 0
  /\ wg = 0
  /\ RunIdle
  /\ PrereqIdle
  /\ MainIdle
  /\ ExtraIdle

\* Mode.UnmarshalYAML
ModeUnmarshalYAML ==
  /\ cpc = "Mode.UnmarshalYAML"
  /\ cpc' = "Mode.returned"
  /\ IF node.kind # "scalar"
     THEN mode' = mode /\ merr' = Error("yaml", "")
     ELSE IF IsKnown(node.value)
     THEN mode' = node.value /\ merr' = NoError
     ELSE mode' = mode /\ merr' = Error("invalid mode", node.value)
  /\ UNCHANGED <<config, modes, idx, out, maxOut, node, encoded, cOut, cerr,
                 enabledChecks, mpc, spawned, wg, runVars, prereqVars,
                 mainVars, extraVars>>

\* checkFactory, ok := KnownChecks[checkTypeName]; if !ok {...}
LookupFailsNever(name) == FALSE

LookupFails(name) == name \notin KnownChecks

\* yaml.Unmarshal(rawCheckData, check): a key without a field in the struct
\* is skipped, a value that does not fit the field is an error.
Applies(name, block) ==
  \A f \in DOMAIN block \cap DOMAIN Fields(name) :
    block[f].kind = Fields(name)[f]

\* One object for every block of the type, whatever the block.
SameObject(heap, k) == 1

\* check := checkFactory(): the k-th object made for its type in this call,
\* heap objects having been made for the configuration before the call.
NewObject(heap, k) == heap + k

\* The block applied to the object the factory made: a field keeps its zero
\* value unless the block has its key.
Decoded(name, id, block) ==
  Instance(name, id,
    [f \in DOMAIN Fields(name) |->
       IF f \in DOMAIN block THEN block[f] ELSE Value(Fields(name)[f], <<>>)])

\* A list that is started anew for every block.
AtNothing(acc, name) == <<>>

\* (*c)[checkTypeName]
At(acc, name) == IF name \in DOMAIN acc THEN acc[name] ELSE <<>>

\* for _, checkData := range checks {...}, from the k-th block on.
RECURSIVE DecodeBlocks(_, _, _, _, _)
DecodeBlocks(name, blocks, k, acc, heap) ==
  IF k > Len(blocks) THEN [c |-> acc, err |-> NoError]
  ELSE IF ~Applies(name, blocks[k])
  THEN [c |-> acc, err |-> Error("yaml", "")]
  ELSE DecodeBlocks(name, blocks, k + 1,
         (name :> Append(At(acc, name),
                         Decoded(name, NewObject(heap, k), blocks[k])))
           @@ acc,
         heap)

\* for checkTypeName, checks := range encoded {...}, the keys visited in the
\* order p.
RECURSIVE DecodeTypes(_, _, _, _)
DecodeTypes(enc, p, acc, heap) ==
  IF p = <<>> THEN [c |-> acc, err |-> NoError]
  ELSE IF LookupFails(Head(p))
  THEN [c |-> acc, err |-> Error("unknown check", Head(p))]
  ELSE LET r == DecodeBlocks(Head(p), enc[Head(p)], 1, acc, heap)
       IN  IF r.err # NoError THEN r
           ELSE DecodeTypes(enc, Tail(p), r.c, heap)

\* Checks.UnmarshalYAML
ChecksUnmarshalYAML ==
  /\ cpc = "Checks.UnmarshalYAML"
  /\ cpc' = "Checks.returned"
  /\ IF encoded.kind # "mapping"
     THEN cOut' = cOut /\ cerr' = Error("yaml", "")
     ELSE \E p \in Orders(DOMAIN encoded.value) :
            LET r == DecodeTypes(encoded.value, p, NoChecks, 0)
            IN  cOut' = r.c /\ cerr' = r.err
  /\ UNCHANGED <<config, modes, idx, out, maxOut, node, mode, merr, encoded,
                 enabledChecks, mpc, spawned, wg, runVars, prereqVars,
                 mainVars, extraVars>>

NextDecode ==
  \/ ModeUnmarshalYAML
  \/ ChecksUnmarshalYAML

SpecDecode == InitDecode /\ [][NextDecode]_vars

\* ------------------------------------------- writeConfig and the decoding
\* The Config that has no mode yet.
NoModes == [md \in {} |-> [MaxDuration |-> 0, Checks |-> NoChecks]]

\* A configuration with one default-constructed instance of every
\* registered check type, three types to a mode.
Constructed(names) ==
  [MaxDuration |-> 0, Checks |-> [n \in names |-> <<Decoded(n, 1, NoFields)>>]]

Defaults ==
  ("pre-commit" :> Constructed({"build", "coverage", "custom"}))
  @@ ("pre-push" :> Constructed({"errcheck", "gofmt", "goimports"}))
  @@ ("lint" :> Constructed({"golint", "govet", "test"}))

\* The configurations that are written out.
Originals == Configs \cup {Defaults}

\* A pre-commit-go.yml written by hand: a mode that does not exist, a check
\* type with a field it does not have and one with no block.
HandWritten ==
  {[kind |-> "mapping",
    value |-> ("all" :> [max_duration |-> 5, checks |-> NoChecks])
              @@ Marshal(Edited).value],
   [kind |-> "mapping",
    value |-> ("lint" :>
                 [max_duration |-> 5,
                  checks |-> ("govet" :> <<Ignores("Close")>>)
                             @@ ("build" :> <<>>)])
              @@ ("pre-push" :>
                 [max_duration |-> 7,
                  checks |-> ("govet" :> <<Blacklist(<<"x">>), NoFields>>)])]}

\* The keys of a document in the order they are written in: yaml.Marshal
\* sorts the keys of a map.
DocOrder ==
  <<"all", "continuous-integration", "lint", "pre-commit", "pre-push">>

Keys(doc) == SelectSeq(DocOrder, LAMBDA k : k \in DOMAIN doc.value)

\* Where a configuration holds a check: the mode, the type name and the
\* place in the list of the type.
Positions(cfg) ==
  UNION {UNION {{<<md, n, k>> : k \in 1..Len(cfg[md].Checks[n])}
                  : n \in DOMAIN cfg[md].Checks}
           : md \in DOMAIN cfg}

\* The number of check objects a configuration holds.
Objects(cfg) == Cardinality(Positions(cfg))

\* The lists of modes asked for after a decoding: continuous-integration,
\* with its 120 orders, on its own only.
LoadLists ==
  {l \in AskedLists :
     Len(l) > 1 => \A k \in 1..Len(l) : l[k] # "continuous-integration"}

InitLoad ==
  /\ cpc \in {"writeConfig", "yaml.Unmarshal", "EnabledChecks"}
  /\ IF cpc = "writeConfig"
     THEN original \in Originals /\ yml = Absent /\ config = NoModes
     ELSE IF cpc = "yaml.Unmarshal"
     THEN original = NoModes /\ yml \in HandWritten /\ config = NoModes
     ELSE original = NoModes /\ yml = Absent /\ config = New
  /\ modes \in LoadLists
  /\ idx = 1
  /\ out = <<>>
  /\ maxOut = 0
  /\ node = [kind |-> "scalar", value |-> ""]
  /\ mode = ""
  /\ merr = NoError
  /\ encoded = [kind |-> "mapping", value |-> NoChecks]
  /\ cOut = NoChecks
  /\ cerr = NoError
  /\ enabledChecks = <<>>
  /\ mpc = "idle"
  /\ spawned = 0
  /\ wg = 0
  /\ records = <<>>
  /\ merged = {}
  /\ profile = <<>>
  /\ all = <<>>
  /\ RunIdle
  /\ PrereqIdle
  /\ MainIdle

\* writeConfig
WriteConfig ==
  /\ cpc = "writeConfig"
  /\ \E removed, written \in BOOLEAN :
       /\ yml' = Written(original, yml, removed, written)
       /\ cpc' = IF written THEN "yaml.Unmarshal" ELSE "failed"
  /\ UNCHANGED <<config, modes, idx, out, maxOut, node, mode, merr, encoded,
                 cOut, cerr, records, merged, profile, all, original,
                 enabledChecks, mpc, spawned, wg, runVars, prereqVars,
                 mainVars>>

\* One entry of Modes map[Mode]Settings decoded: Mode.UnmarshalYAML for the
\* key, Checks.UnmarshalYAML and the max_duration for the value.
UnmarshalMode ==
  /\ cpc = "yaml.Unmarshal"
  /\ idx <= Len(Keys(yml))
  /\ LET key == Keys(yml)[idx]
         st == yml.value[key]
     IN  IF ~IsKnown(key)
         THEN /\ cerr' = Error("invalid mode", key)
              /\ cpc' = "failed"
              /\ UNCHANGED <<config, idx>>
         ELSE \E p \in Orders(DOMAIN st.checks) :
                LET r == DecodeTypes(st.checks, p, NoChecks, Objects(config))
                IN  IF r.err # NoError
                    THEN /\ cerr' = r.err
                         /\ cpc' = "failed"
                         /\ UNCHANGED <<config, idx>>
                    ELSE /\ config' =
                              (key :> [MaxDuration |-> st.max_duration,
                                       Checks |-> r.c]) @@ config
                         /\ idx' = idx + 1
                         /\ UNCHANGED <<cpc, cerr>>
  /\ UNCHANGED <<modes, out, maxOut, node, mode, merr, encoded, cOut,
                 enabledChecks, mpc, spawned, wg, runVars, prereqVars,
                 mainVars, extraVars>>

\* The document is decoded: the checks of the asked modes are taken next.
UnmarshalReturn ==
  /\ cpc = "yaml.Unmarshal"
  /\ idx > Len(Keys(yml))
  /\ cpc' = "EnabledChecks"
  /\ idx' = 1
  /\ UNCHANGED <<config, modes, out, maxOut, node, mode, merr, encoded, cOut,
                 cerr, enabledChecks, mpc, spawned, wg, runVars, prereqVars,
                 mainVars, extraVars>>

NextLoad ==
  \/ WriteConfig
  \/ UnmarshalMode
  \/ UnmarshalReturn
  \/ EnabledChecksMode
  \/ EnabledChecksReturn

SpecLoad == InitLoad /\ [][NextLoad]_vars

\* ------------------------------------------ properties of EnabledChecks
Count(x, q) == Cardinality({k \in 1..Len(q) : q[k] = x})

\* One order of the check type names: the sorted one.
SortedNames ==
  <<"build", "coverage", "errcheck", "gofmt", "goimports", "golint", "govet",
    "test">>

\* The instances of one mode, the check types taken in that order.
InFixedOrder(cfg, md) ==
  LET checks == Settings(cfg, md).Checks
      Present(n) == n \in DOMAIN checks
  IN  Gather(checks, SelectSeq(SortedNames, Present))

\* The concatenation, mode after mode, of the instances in that fixed order.
RECURSIVE Concatenation(_, _)
Concatenation(cfg, ms) ==
  IF ms = <<>> THEN <<>>
  ELSE InFixedOrder(cfg, Head(ms)) \o Concatenation(cfg, Tail(ms))

\* The sum of the per-mode instance counts.
RECURSIVE NumInstances(_, _)
NumInstances(cfg, ms) ==
  IF ms = <<>> THEN 0
  ELSE Len(InFixedOrder(cfg, Head(ms))) + NumInstances(cfg, Tail(ms))

\* The largest budget of the modes asked for, 0 when none is asked for.
LargestBudget(cfg, ms) ==
  LET B == {Settings(cfg, ms[k]).MaxDuration : k \in 1..Len(ms)}
  IN  IF B = {} THEN 0 ELSE CHOOSE d \in B : \A e \in B : e <= d

Names(q) == {q[k].name : k \in 1..Len(q)}

\* C12: EnabledChecks returns every instance of every mode asked for, as many
\* times as its mode is asked for (the length is the sum of the per-mode
\* counts), with the largest of the budgets; on the default configuration
\* {pre-commit} gives build, gofmt and test with budget 5 and
\* {pre-commit, pre-push} gives 6 checks with budget 15.
C12_AllInstancesMaxBudget ==
  cpc = "returned" =>
    /\ Len(out) = NumInstances(config, modes)
    /\ LET whole == Concatenation(config, modes)
       IN  \A x \in Range(out) \cup Range(whole) :
             Count(x, out) = Count(x, whole)
    /\ maxOut = LargestBudget(config, modes)
    /\ (config = New /\ modes = <<"pre-commit">>) =>
         (Len(out) = 3 /\ Names(out) = {"build", "gofmt", "test"} /\ maxOut = 5)
    /\ (config = New /\ modes = <<"pre-commit", "pre-push">>) =>
         (Len(out) = 6 /\ maxOut = 15)

C12_Witness ==
  /\ cpc = "returned"
  /\ config = New
  /\ modes = <<"pre-commit", "pre-push">>
  /\ Len(out) = 6
  /\ maxOut = 15

\* C13: EnabledChecks returns one sequence for one Config and one list of
\* modes: the concatenation of the modes' instances, the check types of a
\* mode always taken in the same order.
C13_SameSequence ==
  cpc = "returned" => out = Concatenation(config, modes)

LintNames == {"errcheck", "golint", "govet"}

LintInstances == Range(InFixedOrder(New, "lint"))

\* C14: on the default configuration no mode but lint holds errcheck, golint
\* or govet, and EnabledChecks for modes without lint returns none of the
\* checks of lint.
C14_LintNeverImplicit ==
  /\ \A md \in Range(AllModes) \ {"lint"} :
       /\ DOMAIN Settings(New, md).Checks \cap LintNames = {}
       /\ Range(InFixedOrder(New, md)) \cap LintInstances = {}
  /\ (config = New /\ "lint" \notin Range(modes)) =>
       (Names(out) \cap LintNames = {} /\ Range(out) \cap LintInstances = {})

C14_Witness ==
  /\ cpc = "returned"
  /\ config = New
  /\ modes = <<"continuous-integration", "pre-push">>
  /\ Len(out) = 8
  /\ Names(out) \cap LintNames = {}

\* ------------------------------------- properties of the YAML decoders
\* C15: a mode name decodes exactly when it is pre-commit, pre-push,
\* continuous-integration or lint, and the mode is then set to it; any other
\* string gives an invalid-mode error quoting it and leaves the mode as it was.
C15_ModeDecoding ==
  [][(cpc = "Mode.UnmarshalYAML" /\ node.kind = "scalar") =>
       /\ (merr' = NoError) <=>
            node.value \in {"pre-commit", "pre-push", "continuous-integration",
                            "lint"}
       /\ merr' = NoError => mode' = node.value
       /\ merr' # NoError =>
            (merr' = Error("invalid mode", node.value) /\ mode' = mode)]_vars

C15_Witness ==
  /\ cpc = "Mode.returned"
  /\ node = [kind |-> "scalar", value |-> "Lint"]
  /\ merr = Error("invalid mode", "Lint")
  /\ mode = "pre-push"

\* The type names of an encoded mapping that the registry does not know.
Unregistered == {n \in DOMAIN encoded.value : n \notin KnownChecks}

\* The registered type names with a block of the given kinds.
WithBlock(kinds) ==
  {n \in DOMAIN encoded.value \ Unregistered :
     \E k \in 1..Len(encoded.value[n]) :
       LET block == encoded.value[n][k]
       IN  \/ /\ "foreign" \in kinds
              /\ DOMAIN block \ DOMAIN Fields(n) # {}
           \/ /\ "wrongkind" \in kinds
              /\ \E f \in DOMAIN block \cap DOMAIN Fields(n) :
                   block[f].kind # Fields(n)[f]}

\* C16: decoding a mapping with an unregistered check type name fails; when
\* the blocks of the registered types can all be decoded, it fails, whatever
\* the order of the types, with the unknown-check error quoting an
\* unregistered name of the mapping, which is the one when there is one.
C16_UnknownCheckNamed ==
  (cpc = "Checks.returned" /\ encoded.kind = "mapping" /\ Unregistered # {}) =>
    /\ cerr # NoError
    /\ WithBlock({"wrongkind"}) = {} =>
         (cerr.kind = "unknown check" /\ cerr.name \in Unregistered)

C16_Witness ==
  /\ cpc = "Checks.returned"
  /\ encoded.kind = "mapping"
  /\ DOMAIN encoded.value = {"build", "test", "vet"}
  /\ WithBlock({"wrongkind"}) = {}
  /\ cerr = Error("unknown check", "vet")
  /\ DOMAIN cOut = {"build", "test"}

\* C17: when a block of a registered type has a field the variant does not
\* have or a value of the wrong kind, decoding fails with an error naming
\* that check type.
C17_BlockErrorNamesType ==
  (cpc = "Checks.returned" /\ encoded.kind = "mapping" /\ Unregistered = {}
     /\ WithBlock({"foreign", "wrongkind"}) # {}) =>
    (cerr # NoError /\ cerr.name \in WithBlock({"foreign", "wrongkind"}))

\* ---------------------------------------- further properties of the probes
\* C23: installPrereq always returns, whatever number of prerequisites the
\* checks declare and however many of them are missing: no probe stays
\* blocked on its send.
C23_PrereqReturns == <>(mpc = "returned")

\* C24: when something was fetched, installPrereq returns nil exactly when
\* the last "go get" it ran gave no output and no error; an output of the
\* last one is what the error carries, and after a retry the error never
\* carries what the first attempt printed.
C24_LastFetchDecides ==
  (mpc = "returned" /\ fetches # <<>>) =>
    LET last == fetches[Len(fetches)] IN
      /\ (pret = "nil") <=> (last.out = "" /\ last.err = "nil")
      /\ last.out # "" => pret = <<"failed", last.out>>
      /\ (last.out = "" /\ last.err # "nil") => pret = <<"failed", last.err>>
      /\ (Len(fetches) = 2 /\ fetches[1].out # "" /\ pret # "nil") =>
           pret[2] # fetches[1].out

C24_Witness ==
  /\ mpc = "returned"
  /\ Len(fetches) = 2
  /\ fetches[1].out = "text"
  /\ fetches[2].out = "text -u"
  /\ pret = <<"failed", "text -u">>

\* ------------------------------------------ further properties of run
\* C26: for a check with a lock, the time held against the budget is the
\* time of its Run() alone: the wait for the lock is not in it, and the
\* budget failure is collected only when Run() itself took more than
\* MaxDuration.
C26_LockWaitNotCounted ==
  \A i \in Tasks :
    IsLocker(i) =>
      /\ tpc[i] \in {"sendErr", "sendMax", "wg.Done", "done"} =>
           duration[i] = enabledChecks[i].cost
      /\ Failure(i, "slow") \in Collected =>
           enabledChecks[i].cost > MaxDuration
      /\ tpc[i] = "sendMax" => enabledChecks[i].cost > MaxDuration

C26_Witness ==
  \E i \in Tasks :
    /\ IsLocker(i)
    /\ tpc[i] = "done"
    /\ begun[i] > 0
    /\ enabledChecks[i].cost <= MaxDuration
    /\ doneAt[i] > MaxDuration
    /\ Failure(i, "slow") \notin Collected

\* C28: with per-check budgets, a check that has ended has collected the
\* budget failure exactly when its Run() took more than the budget it
\* declares, or more than the MaxDuration of the configuration when it
\* declares none.
C28_OwnBudgetElseConfigWide ==
  \A i \in Tasks :
    (HasMaxDuration(i) /\ tpc[i] = "done") =>
      (Failure(i, "slow") \in Collected <=>
         enabledChecks[i].cost > Selected(i))

\* ------------------------------------ properties of the coverage merge
\* The lines of a file that the merged runs report.
ReportedBy(rs, f) == UNION {records[r].lines : r \in {q \in rs : records[q].file = f}}

\* C22: the merged model holds, per file, the union of the covered lines of
\* the merged records, whatever the order of merging and however often a
\* record comes; {1,2,3} and {3,4,5} of one file give {1,2,3,4,5}; and the
\* ratio counts the lines of that union, not the lines of each record.
C22_MergeIsUnion ==
  /\ \A f \in Files : CoveredIn(profile, f) = ReportedBy(merged, f)
  /\ Ratio(profile)[1] =
       Cardinality({x \in Files \X ExecutableLines : x[2] \in ReportedBy(merged, x[1])})
  /\ (merged = {1, 2} /\ records[1].file = records[2].file
        /\ {records[1].lines, records[2].lines} = {{1, 2, 3}, {3, 4, 5}}) =>
       /\ profile[records[1].file] = {1, 2, 3, 4, 5}
       /\ Ratio(profile) = <<5, 10>>
  /\ (merged = {1, 2} /\ records[1] = records[2]) =>
       CoveredIn(profile, records[1].file) = records[1].lines

C22_Witness ==
  /\ merged = {1, 2}
  /\ records[1] = [file |-> "a.go", lines |-> {3, 4, 5}]
  /\ records[2] = [file |-> "a.go", lines |-> {1, 2, 3}]
  /\ Ratio(profile) = <<5, 10>>

\* The positions in all of the checks the configuration enables.
EnabledIn == {k \in DOMAIN all : all[k].Enabled}

\* The package URLs that the prerequisites of the checks at ks name.
ToolURLs(ks) ==
  UNION {{all[k].prereqs[h].URL : h \in DOMAIN all[k].prereqs} : k \in ks}

\* The URLs that one of the "go get" commands was given.
Fetched == UNION {Range(fetches[f].urls) : f \in DOMAIN fetches}

\* C25: once run or installPrereq has taken the checks of the configuration,
\* the checks it works on are exactly the enabled ones, the built-in ones in
\* their fixed order followed by the custom ones; nothing is executed and no
\* prerequisite is probed but theirs, and no package URL of a check that is
\* not enabled is reported missing or handed to "go get".
C25_OnlyEnabledParticipate ==
  (mpc \notin {"installPrereq", "run"}) =>
    /\ {enabledChecks[i].inst : i \in Tasks} = EnabledIn
    /\ \A i \in Tasks : all[enabledChecks[i].inst].Enabled
    /\ \A i, j \in Tasks : i < j =>
         /\ enabledChecks[i].inst < enabledChecks[j].inst
         /\ all[enabledChecks[i].inst].custom => all[enabledChecks[j].inst].custom
    /\ DOMAIN calls = Tasks
    /\ DOMAIN prereqs = Tasks
    /\ \A i \in Tasks : prereqs[i] = all[enabledChecks[i].inst].prereqs
    /\ DOMAIN ppc = PTasks
    /\ Range(urlc) \cup m \cup Range(urls) \cup Fetched
         \subseteq ToolURLs(EnabledIn)

C25_Witness ==
  /\ mpc = "returned"
  /\ fetches # <<>>
  /\ \E k \in DOMAIN all :
       /\ ~all[k].Enabled
       /\ all[k].prereqs # <<>>
  /\ \E i \in Tasks : all[enabledChecks[i].inst].custom
  /\ \E i \in Tasks : ~all[enabledChecks[i].inst].custom

\* ------------------------------- properties of writeConfig and the decoding
\* Two configurations with the same modes and budgets and, mode by mode, the
\* same type names, each with as many instances, in the same order, with the
\* same field values.
Equal(a, b) ==
  /\ DOMAIN a = DOMAIN b
  /\ \A md \in DOMAIN a :
       /\ a[md].MaxDuration = b[md].MaxDuration
       /\ DOMAIN a[md].Checks = DOMAIN b[md].Checks
       /\ \A n \in DOMAIN a[md].Checks :
            /\ Len(a[md].Checks[n]) = Len(b[md].Checks[n])
            /\ \A k \in 1..Len(a[md].Checks[n]) :
                 /\ a[md].Checks[n][k].name = b[md].Checks[n][k].name
                 /\ a[md].Checks[n][k].fields = b[md].Checks[n][k].fields

Identity(chk) == <<chk.name, chk.id>>

\* The check a configuration holds at a position.
Held(cfg, pos) == cfg[pos[1]].Checks[pos[2]][pos[3]]

\* No mode is asked for twice.
DistinctModes == \A i, j \in DOMAIN modes : i # j => modes[i] # modes[j]

\* C27: in the default configuration and in a decoded one no check object
\* is held at two positions, and EnabledChecks over a list of distinct
\* modes returns pairwise distinct objects.
C27_InstancesNotShared ==
  (cpc \in {"EnabledChecks", "returned"}) =>
    /\ \A a, b \in Positions(config) :
         a # b => Identity(Held(config, a)) # Identity(Held(config, b))
    /\ DistinctModes =>
         \A i, j \in DOMAIN out : i # j => Identity(out[i]) # Identity(out[j])

C27_Witness ==
  /\ cpc = "returned"
  /\ yml.kind = "mapping"
  /\ Len(modes) = 2
  /\ DistinctModes
  /\ \E i, j \in DOMAIN out : i # j /\ out[i].name = out[j].name

TypeOK ==
  /\ mpc \in {"loop", "drain", "done", "probe", "collect", "get", "getU",
             "returned", "main", "config", "exit", "idle", "installPrereq",
             "run"}
  /\ cpc \in {"idle", "EnabledChecks", "returned", "Mode.UnmarshalYAML",
             "Mode.returned", "Checks.UnmarshalYAML", "Checks.returned",
             "writeConfig", "yaml.Unmarshal", "failed"}
  /\ \A i \in Tasks : tpc[i] \in {"unborn", "callRun", "Run", "sendErr", "sendMax", "wg.Done", "done"}
  /\ \A j \in PTasks : ppc[j] \in {"unborn", "IsPresent", "send", "done"}
  /\ Len(errs) <= ErrsCap
  /\ Len(urlc) <= UrlCap
  /\ wg \in 0..(N + Len(Probes))
  /\ exit \in {"running", "0", "1"}
  /\ hook \in {"absent", "installed"}
  /\ decodeErr \in BOOLEAN
====
